---------------------------- MODULE Spec2Model ----------------------------
(* Model of packages/cli/src/template.rs: the template catalog, the        *)
(* conditional-file resolver, variable substitution and Template::render.  *)
(* Text is a sequence of tokens; a placeholder ~x~ is the three tokens     *)
(* "~", "x", "~", so that replace-all works on sub-sequences the way       *)
(* str::replace works on sub-strings.                                      *)
EXTENDS Integers, Sequences, FiniteSets, TLC

VARIABLES
    template,      \* self: the Template a catalog call or render is applied to
    pkg_manager,   \* the selected PackageManager
    flavor,        \* the Flavor handed to from_flavor
    call,          \* the last catalog / replace_vars call: its arguments and result
    package_name,  \* render's package_name argument (text)
    alpha,         \* render's alpha argument
    mobile,        \* render's mobile argument
    store,         \* FRAGMENTS: the embedded asset store (a set of entries)
    marker_parse,  \* what Manifest::parse returns for the marker's text
    manifest,      \* the parsed Manifest (NoManifest before it is loaded)
    baseLeft,      \* base-zone entries the first loop has not visited yet
    tmplLeft,      \* template-zone entries the second loop has not visited yet
    idx,           \* position of the third loop in manifest.files
    fs,            \* the target directory: relative path -> bytes
    log,           \* every file operation render has attempted, in order
    pc,            \* "start", "run", "done" (Ok) or "failed" (Err)
    err            \* the error render returned

catVars == <<template, pkg_manager, flavor, call>>
ctxVars == <<package_name, alpha, mobile, store, marker_parse>>
runVars == <<manifest, baseLeft, tmplLeft, idx, fs, log, pc, err>>
vars == <<template, pkg_manager, flavor, call, package_name, alpha, mobile,
          store, marker_parse, manifest, baseLeft, tmplLeft, idx, fs, log, pc, err>>

--------------------------------------------------------------------------
(* Template catalog *)

Template ==
    {"Vanilla", "VanillaTs", "Vue", "VueTs", "Svelte", "SvelteTs", "React",
     "ReactTs", "Solid", "SolidTs", "Yew", "Leptos", "Sycamore", "Angular",
     "Preact", "PreactTs"}

Flavor == {"JavaScript", "TypeScript"}

PackageManager == {"Cargo", "Pnpm", "Yarn", "Npm", "Bun"}

NODE == <<"Pnpm", "Yarn", "Npm", "Bun">>

\* Option<T>: a sequence of length 0 or 1
None == <<>>
Some(x) == <<x>>

\* impl Display for Template
Display(t) ==
    CASE t = "Vanilla" -> "vanilla"
      [] t = "VanillaTs" -> "vanilla-ts"
      [] t = "Vue" -> "vue"
      [] t = "VueTs" -> "vue-ts"
      [] t = "Svelte" -> "svelte"
      [] t = "SvelteTs" -> "svelte-ts"
      [] t = "React" -> "react"
      [] t = "ReactTs" -> "react-ts"
      [] t = "Solid" -> "solid"
      [] t = "SolidTs" -> "solid-ts"
      [] t = "Yew" -> "yew"
      [] t = "Leptos" -> "leptos"
      [] t = "Sycamore" -> "sycamore"
      [] t = "Angular" -> "angular"
      [] t = "Preact" -> "preact"
      [] t = "PreactTs" -> "preact-ts"

\* flavors with a slip: the Vanilla arm does not test for Cargo
flavors_ignoring_manager(t, pm) ==
    IF t \in {"Vanilla", "Vue", "Svelte", "React", "Solid", "Preact"}
    THEN Some(<<"TypeScript", "JavaScript">>)
    ELSE None

\* Template::flavors
flavors(t, pm) ==
    CASE t = "Vanilla" ->
           IF pm = "Cargo" THEN None
           ELSE Some(<<"TypeScript", "JavaScript">>)
      [] t = "Vue" -> Some(<<"TypeScript", "JavaScript">>)
      [] t = "Svelte" -> Some(<<"TypeScript", "JavaScript">>)
      [] t = "React" -> Some(<<"TypeScript", "JavaScript">>)
      [] t = "Solid" -> Some(<<"TypeScript", "JavaScript">>)
      [] t = "Preact" -> Some(<<"TypeScript", "JavaScript">>)
      [] OTHER -> None

\* Template::from_flavor
from_flavor(t, f) ==
    CASE t = "Vanilla" /\ f = "TypeScript" -> "VanillaTs"
      [] t = "Vue" /\ f = "TypeScript" -> "VueTs"
      [] t = "Svelte" /\ f = "TypeScript" -> "SvelteTs"
      [] t = "React" /\ f = "TypeScript" -> "ReactTs"
      [] t = "Solid" /\ f = "TypeScript" -> "SolidTs"
      [] t = "Preact" /\ f = "TypeScript" -> "PreactTs"
      [] OTHER -> t

\* without_flavor with a slip: the SolidTs arm returns SolidTs
without_flavor_solid_slip(t) ==
    CASE t = "VanillaTs" -> "Vanilla"
      [] t = "VueTs" -> "Vue"
      [] t = "SvelteTs" -> "Svelte"
      [] t = "ReactTs" -> "React"
      [] t = "SolidTs" -> "SolidTs"
      [] t = "PreactTs" -> "Preact"
      [] OTHER -> t

\* Template::without_flavor
without_flavor(t) ==
    CASE t = "VanillaTs" -> "Vanilla"
      [] t = "VueTs" -> "Vue"
      [] t = "SvelteTs" -> "Svelte"
      [] t = "ReactTs" -> "React"
      [] t = "SolidTs" -> "Solid"
      [] t = "PreactTs" -> "Preact"
      [] OTHER -> t

\* Template::possible_package_managers
possible_package_managers(t) ==
    CASE t = "Vanilla" -> <<"Cargo", "Pnpm", "Yarn", "Npm", "Bun">>
      [] t \in {"Yew", "Leptos", "Sycamore"} -> <<"Cargo">>
      [] OTHER -> NODE

Range(s) == {s[i] : i \in DOMAIN s}


--------------------------------------------------------------------------
(* Text and variable substitution *)

\* the placeholder ~x~
Ph(x) == <<"~", x, "~">>

StartsWith(s, pat) ==
    /\ Len(s) >= Len(pat)
    /\ SubSeq(s, 1, Len(pat)) = pat

\* str::replace: every non-overlapping match of pat, left to right
RECURSIVE ReplaceAll(_, _, _)
ReplaceAll(s, pat, rep) ==
    IF s = <<>> THEN <<>>
    ELSE IF StartsWith(s, pat)
         THEN rep \o ReplaceAll(SubSeq(s, Len(pat) + 1, Len(s)), pat, rep)
         ELSE <<Head(s)>> \o ReplaceAll(Tail(s), pat, rep)

\* PackageManager::to_string (package_manager.rs)
pm_to_string(pm) ==
    CASE pm = "Cargo" -> "cargo"
      [] pm = "Pnpm" -> "pnpm"
      [] pm = "Yarn" -> "yarn"
      [] pm = "Npm" -> "npm"
      [] pm = "Bun" -> "bun"

\* PackageManager::run_cmd (package_manager.rs)
run_cmd(pm) ==
    CASE pm = "Cargo" -> <<"cargo">>
      [] pm = "Pnpm" -> <<"pnpm">>
      [] pm = "Yarn" -> <<"yarn">>
      [] pm = "Npm" -> <<"npm run">>
      [] pm = "Bun" -> <<"bun run">>

\* Manifest::replace_vars (manifest.rs): the four fragment variables
Manifest_replace_vars(m, content) ==
    ReplaceAll(
      ReplaceAll(
        ReplaceAll(
          ReplaceAll(content, Ph("fragment_before_dev_command"), m.before_dev_command),
          Ph("fragment_before_build_command"), m.before_build_command),
        Ph("fragment_dev_path"), m.dev_path),
      Ph("fragment_dist_dir"), m.dist_dir)

\* render: let lib_name = format!("{}_lib", package_name.replace('-', "_"))
lib_name_of(name) == ReplaceAll(name, <<"-">>, <<"_">>) \o <<"_lib">>

\* replace_vars with a slip: the manifest variables are substituted last
replace_vars_engine_first(content, lib_name, name, pm, m) ==
    Manifest_replace_vars(m,
      ReplaceAll(
        ReplaceAll(
          ReplaceAll(
            ReplaceAll(content, Ph("lib_name"), lib_name),
            Ph("package_name"), name),
          Ph("pkg_manager_run_command"), run_cmd(pm)),
        Ph("double-dash"), IF pm = "Npm" THEN <<" --">> ELSE <<>>))

\* Template::replace_vars
replace_vars(content, lib_name, name, pm, m) ==
    ReplaceAll(
      ReplaceAll(
        ReplaceAll(
          ReplaceAll(Manifest_replace_vars(m, content), Ph("lib_name"), lib_name),
          Ph("package_name"), name),
        Ph("pkg_manager_run_command"), run_cmd(pm)),
      Ph("double-dash"), IF pm = "Npm" THEN <<" --">> ELSE <<>>)

\* the manifest of test::it_works
TestManifest ==
    [before_dev_command |->
        Ph("pkg_manager_run_command") \o <<" start">> \o Ph("double-dash")
          \o <<" --port 1420">>,
     before_build_command |-> Ph("pkg_manager_run_command") \o <<" build">>,
     dev_path |-> <<"http://localhost:1420">>,
     dist_dir |-> <<>>,
     files |-> <<>>]

\* the content of test::it_works
TestContent ==
    <<"dev=">> \o Ph("fragment_before_dev_command")
      \o <<";build=">> \o Ph("fragment_before_build_command")
      \o <<";path=">> \o Ph("fragment_dev_path")
      \o <<";dist=">> \o Ph("fragment_dist_dir")

\* the state of `manifest` before Manifest::parse has returned
NoManifest ==
    [before_dev_command |-> <<>>, before_build_command |-> <<>>,
     dev_path |-> <<>>, dist_dir |-> <<>>, files |-> <<>>]


--------------------------------------------------------------------------
(* The asset store and the conditional-file resolver *)

\* a FRAGMENTS entry <zone>/<dir>/<name> and its bytes
Entry(zone, dir, name, data) ==
    [zone |-> zone, dir |-> dir, name |-> name, data |-> data]

NoEntry == Entry("", "", <<>>, <<>>)

\* a path below target_dir
Path(dir, name) == [dir |-> dir, name |-> name]

NoPath == Path("", <<>>)

\* a byte sequence that is not UTF-8
InvalidByte == "<ff>"

\* String::from_utf8(..).is_ok()
IsUtf8(data) == \A i \in DOMAIN data : data[i] # InvalidByte

\* format!("fragment-{self}")
TemplateZone(t) == "fragment-" \o Display(t)

\* FRAGMENTS::get
FRAGMENTS_get(zone, dir, name) ==
    {e \in store : e.zone = zone /\ e.dir = dir /\ e.name = name}

\* FRAGMENTS::iter().filter(first component == zone)
FRAGMENTS_zone(zone) == {e \in store : e.zone = zone}

\* str::split: the pieces of s between the occurrences of sep
RECURSIVE Split(_, _)
Split(s, sep) ==
    IF \A i \in DOMAIN s : s[i] # sep THEN <<s>>
    ELSE LET i == CHOOSE j \in DOMAIN s :
                    s[j] = sep /\ \A h \in 1..(j - 1) : s[h] # sep
         IN <<SubSeq(s, 1, i - 1)>> \o Split(SubSeq(s, i + 1, Len(s)), sep)

\* Vec::retain
RECURSIVE Retain(_, _)
Retain(s, keep) ==
    IF s = <<>> THEN <<>>
    ELSE (IF Head(s) \in keep THEN <<Head(s)>> ELSE <<>>) \o Retain(Tail(s), keep)

\* name.starts_with("%(") && name[1..].contains(")%")
IsConditional(name) ==
    /\ name # <<>>
    /\ Head(name) = "%("
    /\ \E i \in DOMAIN Tail(name) : Tail(name)[i] = ")%"

\* the flag list: name.strip_prefix("%(").split(")%").next().split('-')
FlagsOf(name) == Split(Split(Tail(name), ")%")[1], "-")

\* the second piece of name.strip_prefix("%(").split(")%")
FinalNameOf(name) == Split(Tail(name), ")%")[2]

ChannelFlags == {<<"stable">>, <<"alpha">>, <<"mobile">>}

\* the outcome of the match on file_name: skip the file, or write it as `name`
Decision(include, name) == [include |-> include, name |-> name]

\* target_file_name with a slip: the alpha arm does not test !mobile
target_file_name_alpha_ignores_mobile(file_name, pm, a, m) ==
    IF file_name = <<"_gitignore">> THEN Decision(TRUE, <<".gitignore">>)
    ELSE IF file_name = <<"_Cargo.toml">> THEN Decision(TRUE, <<"Cargo.toml">>)
    ELSE IF file_name = <<"_cta_manifest_">> THEN Decision(FALSE, <<>>)
    ELSE IF IsConditional(file_name)
    THEN LET flags == FlagsOf(file_name)
             for_stable == \E i \in DOMAIN flags : flags[i] = <<"stable">>
             for_alpha == \E i \in DOMAIN flags : flags[i] = <<"alpha">>
             for_mobile == \E i \in DOMAIN flags : flags[i] = <<"mobile">>
             managers == Retain(flags, Range(flags) \ ChannelFlags)
         IN IF /\ \/ for_stable /\ ~a
                  \/ for_alpha /\ a
                  \/ for_mobile /\ a /\ m
                  \/ ~for_stable /\ ~for_alpha /\ ~for_mobile
               /\ \/ \E i \in DOMAIN managers : managers[i] = <<pm_to_string(pm)>>
                  \/ managers = <<>>
            THEN Decision(TRUE, FinalNameOf(file_name))
            ELSE Decision(FALSE, <<>>)
    ELSE Decision(TRUE, file_name)

\* target_file_name with a slip: any manager flag admits any manager
target_file_name_any_manager(file_name, pm, a, m) ==
    IF file_name = <<"_gitignore">> THEN Decision(TRUE, <<".gitignore">>)
    ELSE IF file_name = <<"_Cargo.toml">> THEN Decision(TRUE, <<"Cargo.toml">>)
    ELSE IF file_name = <<"_cta_manifest_">> THEN Decision(FALSE, <<>>)
    ELSE IF IsConditional(file_name)
    THEN LET flags == FlagsOf(file_name)
             for_stable == \E i \in DOMAIN flags : flags[i] = <<"stable">>
             for_alpha == \E i \in DOMAIN flags : flags[i] = <<"alpha">>
             for_mobile == \E i \in DOMAIN flags : flags[i] = <<"mobile">>
             managers == Retain(flags, Range(flags) \ ChannelFlags)
         IN IF /\ \/ for_stable /\ ~a
                  \/ for_alpha /\ a /\ ~m
                  \/ for_mobile /\ a /\ m
                  \/ ~for_stable /\ ~for_alpha /\ ~for_mobile
               /\ \/ \E i \in DOMAIN managers : managers[i] \in
                       {<<"cargo">>, <<"pnpm">>, <<"yarn">>, <<"npm">>, <<"bun">>}
                  \/ managers = <<>>
            THEN Decision(TRUE, FinalNameOf(file_name))
            ELSE Decision(FALSE, <<>>)
    ELSE Decision(TRUE, file_name)

\* write_file: let target_file_name = match &*file_name { .. }
target_file_name(file_name, pm, a, m) ==
    IF file_name = <<"_gitignore">> THEN Decision(TRUE, <<".gitignore">>)
    ELSE IF file_name = <<"_Cargo.toml">> THEN Decision(TRUE, <<"Cargo.toml">>)
    ELSE IF file_name = <<"_cta_manifest_">> THEN Decision(FALSE, <<>>)
    ELSE IF IsConditional(file_name)
    THEN LET flags == FlagsOf(file_name)
             for_stable == \E i \in DOMAIN flags : flags[i] = <<"stable">>
             for_alpha == \E i \in DOMAIN flags : flags[i] = <<"alpha">>
             for_mobile == \E i \in DOMAIN flags : flags[i] = <<"mobile">>
             \* flags.retain(|e| !["stable", "alpha", "mobile"].contains(e))
             managers == Retain(flags, Range(flags) \ ChannelFlags)
         IN IF /\ \/ for_stable /\ ~a
                  \/ for_alpha /\ a /\ ~m
                  \/ for_mobile /\ a /\ m
                  \/ ~for_stable /\ ~for_alpha /\ ~for_mobile
               /\ \/ \E i \in DOMAIN managers : managers[i] = <<pm_to_string(pm)>>
                  \/ managers = <<>>
            THEN Decision(TRUE, FinalNameOf(file_name))
            ELSE Decision(FALSE, <<>>)
    ELSE Decision(TRUE, file_name)

\* the names whose contents write_file substitutes
AllowList ==
    {<<"Cargo.toml">>, <<"package.json">>, <<"tauri.conf.json">>, <<"main.rs">>,
     <<"vite.config.ts">>, <<"vite.config.js">>, <<"Trunk.toml">>,
     <<"angular.json">>}

\* file_data with a slip: the allow-list is tested on the source file name
file_data_by_source_name(e, tname, name, pm, m) ==
    IF e.name \in AllowList /\ IsUtf8(e.data)
    THEN replace_vars(e.data, lib_name_of(name), name, pm, m)
    ELSE e.data

\* write_file: the bytes written for entry e under target name tname
file_data(e, tname, name, pm, m) ==
    IF tname \in AllowList /\ IsUtf8(e.data)
    THEN replace_vars(e.data, lib_name_of(name), name, pm, m)
    ELSE e.data


--------------------------------------------------------------------------
(* The target directory *)

NoFiles == [p \in {} |-> <<>>]

\* fs::write: create or truncate, then write
fs_write(f, p, data) ==
    [q \in DOMAIN f \cup {p} |-> IF q = p THEN data ELSE f[q]]

\* fs_append with a slip: the file is truncated instead of appended to
fs_append_truncating(f, p, data) ==
    [q \in DOMAIN f \cup {p} |-> IF q = p THEN data ELSE f[q]]

\* OpenOptions::new().append(true).create(true), then write_all
fs_append(f, p, data) ==
    [q \in DOMAIN f \cup {p} |->
        IF q = p THEN (IF p \in DOMAIN f THEN f[p] ELSE <<>>) \o data ELSE f[q]]

\* one attempted file operation of render
Event(pass, entry, path, data, op) ==
    [pass |-> pass, entry |-> entry, path |-> path, data |-> data, op |-> op]

Error(kind, path) == [kind |-> kind, path |-> path]

NoError == Error("none", NoPath)

\* how the file-system calls of one step can end: all succeed ("ok"), or
\* create_dir_all fails, or the file cannot be opened, or the write fails
\* after k of the bytes have been written
IoOutcomes(data) ==
    {<<"ok", 0>>, <<"create_dir_all", 0>>, <<"open", 0>>}
      \cup {<<"write", k>> : k \in 0..(Len(data) - 1)}

\* write_file with a slip: a failed step removes the files written so far
write_file_rolling_back(e, pass, io, k) ==
    LET d == target_file_name(e.name, pkg_manager, alpha, mobile)
        p == Path(e.dir, d.name)
        data == file_data(e, d.name, package_name, pkg_manager, manifest)
    IN IF ~d.include
       THEN [fs |-> fs, ok |-> TRUE, ev |-> Event(pass, e, NoPath, <<>>, "skip")]
       ELSE IF io = "ok"
       THEN [fs |-> fs_write(fs, p, data), ok |-> TRUE,
             ev |-> Event(pass, e, p, data, "write")]
       ELSE [fs |-> NoFiles, ok |-> FALSE,
             ev |-> Event(pass, e, p, <<>>, io \o " failed")]

\* the closure write_file applied to entry e, its file-system calls ending as
\* io says: the new target directory, Ok or Err, and the logged event
write_file(e, pass, io, k) ==
    LET d == target_file_name(e.name, pkg_manager, alpha, mobile)
        p == Path(e.dir, d.name)
        data == file_data(e, d.name, package_name, pkg_manager, manifest)
    IN IF ~d.include
       THEN [fs |-> fs, ok |-> TRUE, ev |-> Event(pass, e, NoPath, <<>>, "skip")]
       ELSE IF io = "ok"
       THEN [fs |-> fs_write(fs, p, data), ok |-> TRUE,
             ev |-> Event(pass, e, p, data, "write")]
       ELSE IF io = "write"
       THEN [fs |-> fs_write(fs, p, SubSeq(data, 1, k)), ok |-> FALSE,
             ev |-> Event(pass, e, p, SubSeq(data, 1, k), "write failed")]
       ELSE [fs |-> fs, ok |-> FALSE,
             ev |-> Event(pass, e, p, <<>>, io \o " failed")]

\* the outcomes write_file(e) can have
write_file_outcomes(e) ==
    LET d == target_file_name(e.name, pkg_manager, alpha, mobile)
    IN IF ~d.include THEN {<<"ok", 0>>}
       ELSE IoOutcomes(file_data(e, d.name, package_name, pkg_manager, manifest))

--------------------------------------------------------------------------
(* Template::render *)

\* Manifest::parse (manifest.rs), an external collaborator: what it returns for
\* the marker's text is an input of the model, held in marker_parse
Manifest_parse(text, m) == marker_parse

\* lines 229-233: load and parse the manifest marker
LoadManifest ==
    /\ pc = "start"
    /\ LET found == FRAGMENTS_get(TemplateZone(template), "", <<"_cta_manifest_">>)
       IN IF found = {}
          THEN /\ pc' = "failed"
               /\ err' = Error("Failed to get manifest bytes", NoPath)
               /\ UNCHANGED <<manifest, baseLeft, tmplLeft>>
          ELSE LET text == (CHOOSE e \in found : TRUE).data
               IN IF ~IsUtf8(text)
                  THEN /\ pc' = "failed"
                       /\ err' = Error("FromUtf8Error", NoPath)
                       /\ UNCHANGED <<manifest, baseLeft, tmplLeft>>
                  ELSE IF ~Manifest_parse(text, mobile).ok
                  THEN /\ pc' = "failed"
                       /\ err' = Error("manifest parse error", NoPath)
                       /\ UNCHANGED <<manifest, baseLeft, tmplLeft>>
                  ELSE /\ pc' = "run"
                       /\ manifest' = Manifest_parse(text, mobile).value
                       /\ baseLeft' = FRAGMENTS_zone("_base_")
                       /\ tmplLeft' = FRAGMENTS_zone(TemplateZone(template))
                       /\ err' = err
    /\ UNCHANGED <<idx, fs, log>>
    /\ UNCHANGED catVars
    /\ UNCHANGED ctxVars

\* WriteTemplate with a slip: it does not wait for the base pass to end
WriteTemplate_before_base ==
    /\ pc = "run"
    /\ \E e \in tmplLeft : \E o \in write_file_outcomes(e) :
          LET r == write_file(e, "template", o[1], o[2])
          IN /\ fs' = r.fs
             /\ log' = Append(log, r.ev)
             /\ IF r.ok
                THEN /\ tmplLeft' = tmplLeft \ {e}
                     /\ UNCHANGED <<pc, err>>
                ELSE /\ pc' = "failed"
                     /\ err' = Error("Io", r.ev.path)
                     /\ UNCHANGED tmplLeft
    /\ UNCHANGED <<manifest, baseLeft, idx>>
    /\ UNCHANGED catVars
    /\ UNCHANGED ctxVars

\* lines 324-333: one iteration of the loop over the _base_ entries
WriteBase ==
    /\ pc = "run"
    /\ \E e \in baseLeft : \E o \in write_file_outcomes(e) :
          LET r == write_file(e, "base", o[1], o[2])
          IN /\ fs' = r.fs
             /\ log' = Append(log, r.ev)
             /\ IF r.ok
                THEN /\ baseLeft' = baseLeft \ {e}
                     /\ UNCHANGED <<pc, err>>
                ELSE /\ pc' = "failed"
                     /\ err' = Error("Io", r.ev.path)
                     /\ UNCHANGED baseLeft
    /\ UNCHANGED <<manifest, tmplLeft, idx>>
    /\ UNCHANGED catVars
    /\ UNCHANGED ctxVars

\* lines 335-345: one iteration of the loop over the template's entries
WriteTemplate ==
    /\ pc = "run"
    /\ baseLeft = {}
    /\ \E e \in tmplLeft : \E o \in write_file_outcomes(e) :
          LET r == write_file(e, "template", o[1], o[2])
          IN /\ fs' = r.fs
             /\ log' = Append(log, r.ev)
             /\ IF r.ok
                THEN /\ tmplLeft' = tmplLeft \ {e}
                     /\ UNCHANGED <<pc, err>>
                ELSE /\ pc' = "failed"
                     /\ err' = Error("Io", r.ev.path)
                     /\ UNCHANGED tmplLeft
    /\ UNCHANGED <<manifest, baseLeft, idx>>
    /\ UNCHANGED catVars
    /\ UNCHANGED ctxVars

\* lines 349-359: the body of the loop over manifest.files for the pair
\* (src, dest), its calls ending as io says
write_extra(src, dest, io, k) ==
    LET found == FRAGMENTS_get("_assets_", "", <<src>>)
        e == IF found = {} THEN NoEntry ELSE CHOOSE x \in found : TRUE
    IN IF found = {}
       THEN [fs |-> fs, ok |-> FALSE,
             err |-> Error("Failed to get asset file bytes", NoPath),
             ev |-> Event("extra", NoEntry, dest, <<>>, "asset missing")]
       ELSE IF io = "ok"
       THEN [fs |-> fs_append(fs, dest, e.data), ok |-> TRUE, err |-> NoError,
             ev |-> Event("extra", e, dest, e.data, "append")]
       ELSE IF io = "write"
       THEN [fs |-> fs_append(fs, dest, SubSeq(e.data, 1, k)), ok |-> FALSE,
             err |-> Error("Io", dest),
             ev |-> Event("extra", e, dest, SubSeq(e.data, 1, k), "write failed")]
       ELSE [fs |-> fs, ok |-> FALSE, err |-> Error("Io", dest),
             ev |-> Event("extra", e, dest, <<>>, io \o " failed")]

\* the outcomes the loop body can have for the asset named src
write_extra_outcomes(src) ==
    LET found == FRAGMENTS_get("_assets_", "", <<src>>)
    IN IF found = {} THEN {<<"ok", 0>>}
       ELSE IoOutcomes((CHOOSE x \in found : TRUE).data)

\* lines 347-360: one iteration of the loop over manifest.files
WriteExtra ==
    /\ pc = "run"
    /\ baseLeft = {}
    /\ tmplLeft = {}
    /\ idx <= Len(manifest.files)
    /\ \E o \in write_extra_outcomes(manifest.files[idx][1]) :
          LET r == write_extra(manifest.files[idx][1], manifest.files[idx][2],
                               o[1], o[2])
          IN /\ fs' = r.fs
             /\ log' = Append(log, r.ev)
             /\ IF r.ok
                THEN /\ idx' = idx + 1
                     /\ UNCHANGED <<pc, err>>
                ELSE /\ pc' = "failed"
                     /\ err' = r.err
                     /\ UNCHANGED idx
    /\ UNCHANGED <<manifest, baseLeft, tmplLeft>>
    /\ UNCHANGED catVars
    /\ UNCHANGED ctxVars

\* line 362: Ok(())
Finish ==
    /\ pc = "run"
    /\ baseLeft = {}
    /\ tmplLeft = {}
    /\ idx > Len(manifest.files)
    /\ pc' = "done"
    /\ UNCHANGED <<manifest, baseLeft, tmplLeft, idx, fs, log, err>>
    /\ UNCHANGED catVars
    /\ UNCHANGED ctxVars


--------------------------------------------------------------------------
(* Inputs of render *)

\* at most MaxBase entries of the _base_ zone are drawn from BasePool
MaxBase == 1
\* at most MaxTmpl entries of the template's zone are drawn from TmplPool
MaxTmpl == 2
\* manifest.files holds at most MaxFiles pairs
MaxFiles == 2

SeqsUpTo(S, n) == UNION {[1..k -> S] : k \in 0..n}

SubsetsUpTo(S, n) == {x \in SUBSET S : Cardinality(x) <= n}

RECURSIVE Join(_, _)
\* the pieces of a sequence of texts with sep between them
Join(pieces, sep) ==
    IF pieces = <<>> THEN <<>>
    ELSE IF Len(pieces) = 1 THEN pieces[1]
    ELSE pieces[1] \o <<sep>> \o Join(Tail(pieces), sep)

\* the conditional name %(<flags joined by ->)%<final>
CondName(flags, final) == <<"%(">> \o Join(flags, "-") \o <<")%">> \o final

ChannelLists ==
    {<<>>, <<<<"stable">>>>, <<<<"alpha">>>>, <<<<"mobile">>>>,
     <<<<"stable">>, <<"alpha">>>>, <<<<"stable">>, <<"mobile">>>>,
     <<<<"alpha">>, <<"mobile">>>>,
     <<<<"stable">>, <<"alpha">>, <<"mobile">>>>}

ManagerLists ==
    {<<>>, <<<<"npm">>>>, <<<<"pnpm">>, <<"npm">>, <<"yarn">>>>, <<<<"bun">>, <<>>>>}

FinalNames == {<<"package.json">>, <<"_cta_manifest_">>}

\* the conditional names render is tried on
CondNames ==
    {CondName(ms \o cs, f) : ms \in ManagerLists, cs \in ChannelLists,
                             f \in FinalNames}

PackageText == Ph("package_name")

MarkerEntry(t, data) == Entry(TemplateZone(t), "", <<"_cta_manifest_">>, data)

\* entries of _assets_ and of another template's zone, in every store
FixedEntries ==
    {Entry("_assets_", "", <<"a.bin">>, <<"A1">>),
     Entry("_assets_", "", <<"b.bin">>, <<"B1", "B2">>),
     Entry("_assets_", "", <<"app.css">>, <<"asset-css">>),
     Entry("fragment-vanilla-ts", "", <<"app.css">>, <<"vanilla-ts-css">>),
     Entry("fragment-vanilla-ts", "", <<"_cta_manifest_">>, <<"manifest text">>)}

BasePool ==
    {Entry("_base_", "", <<"app.css">>, PackageText),
     Entry("_base_", "", <<"_Cargo.toml">>, PackageText),
     Entry("_base_", "", <<"_cta_manifest_">>, <<"manifest text">>)}

TmplPool ==
    {Entry("fragment-vanilla", "", <<"app.css">>, <<"vanilla-css">>),
     Entry("fragment-vanilla", "", CondName(<<<<"stable">>>>, <<"app.css">>),
           <<"stable-css">>),
     Entry("fragment-vanilla", "", <<"package.json">>,
           <<InvalidByte>> \o PackageText)}

FilePairs ==
    {<<"a.bin", Path("", <<"app.css">>)>>,
     <<"b.bin", Path("", <<"app.css">>)>>,
     <<"missing.bin", Path("", <<"app.css">>)>>}

ParseOk(m) == [ok |-> TRUE, value |-> m]
ParseError == [ok |-> FALSE, value |-> NoManifest]

\* the state render starts from, given its arguments and the store
InitRun ==
    /\ manifest = NoManifest
    /\ baseLeft = {}
    /\ tmplLeft = {}
    /\ idx = 1
    /\ fs = NoFiles
    /\ log = <<>>
    /\ pc = "start"
    /\ err = NoError

InitNoCall ==
    /\ flavor = "JavaScript"
    /\ call = [op |-> "none", arg |-> <<>>, res |-> <<>>]

\* one conditional entry in the template's zone, every context
InitGate ==
    /\ template = "Vanilla"
    /\ pkg_manager \in PackageManager
    /\ alpha \in BOOLEAN
    /\ mobile \in BOOLEAN
    /\ package_name = <<"cta", "-", "app">>
    /\ marker_parse = ParseOk(TestManifest)
    /\ \E n \in CondNames :
          store = FixedEntries
                    \cup {MarkerEntry("Vanilla", <<"manifest text">>),
                          Entry("fragment-vanilla", "", n, PackageText)}

\* stores that overlay base, template and extra files, and broken markers
InitOverlay ==
    /\ template = "Vanilla"
    /\ pkg_manager = "Npm"
    /\ alpha = FALSE
    /\ mobile = FALSE
    /\ package_name = <<"cta", "-", "app">>
    /\ \E b \in SubsetsUpTo(BasePool, MaxBase), t \in SubsetsUpTo(TmplPool, MaxTmpl) :
         \/ /\ \E files \in SeqsUpTo(FilePairs, MaxFiles) :
                  marker_parse = ParseOk([TestManifest EXCEPT !.files = files])
            /\ store = FixedEntries \cup b \cup t
                         \cup {MarkerEntry("Vanilla", <<"manifest text">>)}
         \/ /\ marker_parse = ParseError
            /\ store = FixedEntries \cup b \cup t
                         \cup {MarkerEntry("Vanilla", <<"manifest text">>)}
         \/ /\ marker_parse = ParseError
            /\ store = FixedEntries \cup b \cup t
                         \cup {MarkerEntry("Vanilla", <<InvalidByte>>)}
         \/ /\ marker_parse = ParseError
            /\ store = FixedEntries \cup b \cup t

Init ==
    /\ InitNoCall
    /\ InitRun
    /\ InitGate \/ InitOverlay

Next ==
    \/ LoadManifest
    \/ WriteBase
    \/ WriteTemplate
    \/ WriteExtra
    \/ Finish

Spec == Init /\ [][Next]_vars


--------------------------------------------------------------------------
(* The catalog functions and replace_vars applied to every input *)

\* render is not running
InitIdle ==
    /\ alpha = FALSE
    /\ mobile = FALSE
    /\ store = {}
    /\ marker_parse = ParseError
    /\ baseLeft = {}
    /\ tmplLeft = {}
    /\ idx = 1
    /\ fs = NoFiles
    /\ log = <<>>
    /\ pc = "idle"
    /\ err = NoError

NoCall(arg) == [op |-> "none", arg |-> arg, res |-> <<>>]

InitCatalog ==
    /\ template \in Template
    /\ pkg_manager \in PackageManager
    /\ flavor \in Flavor
    /\ call = NoCall(<<>>)
    /\ package_name = <<>>
    /\ manifest = NoManifest
    /\ InitIdle

\* self.flavors(pkg_manager)
CallFlavors ==
    /\ call.op = "none"
    /\ call' = [op |-> "flavors", arg |-> <<template, pkg_manager>>,
                res |-> flavors(template, pkg_manager)]
    /\ UNCHANGED <<template, pkg_manager, flavor>>
    /\ UNCHANGED ctxVars
    /\ UNCHANGED runVars

\* self.from_flavor(flavor)
CallFromFlavor ==
    /\ call.op \in {"none", "flavors"}
    /\ call' = [op |-> "from_flavor", arg |-> <<template, flavor>>,
                res |-> <<from_flavor(template, flavor)>>]
    /\ UNCHANGED <<template, pkg_manager, flavor>>
    /\ UNCHANGED ctxVars
    /\ UNCHANGED runVars

\* without_flavor applied to the template from_flavor returned
CallWithoutFlavor ==
    /\ call.op = "from_flavor"
    /\ call' = [op |-> "without_flavor", arg |-> call.res,
                res |-> <<without_flavor(call.res[1])>>]
    /\ UNCHANGED <<template, pkg_manager, flavor>>
    /\ UNCHANGED ctxVars
    /\ UNCHANGED runVars

NextCatalog ==
    \/ CallFlavors
    \/ CallFromFlavor
    \/ CallWithoutFlavor

SpecCatalog == InitCatalog /\ [][NextCatalog]_vars

\* a manifest whose values use the engine's own placeholders
NestedManifest ==
    [before_dev_command |-> Ph("lib_name"),
     before_build_command |-> Ph("package_name"),
     dev_path |-> Ph("double-dash"),
     dist_dir |-> <<"../dist">>,
     files |-> <<>>]

RunContent == Ph("pkg_manager_run_command") \o <<" tauri">> \o Ph("double-dash")

NamesContent == Ph("lib_name") \o <<"/">> \o Ph("package_name")

\* ~lib_name~package_name~: the two placeholders share a tilde
SharedTildeContent == <<"~", "lib_name", "~", "package_name", "~">>

Contents == {TestContent, RunContent, NamesContent, SharedTildeContent, <<"plain">>}

VarPackageNames ==
    {<<"cta", "-", "app">>, Ph("pkg_manager_run_command"), Ph("lib_name")}

InitVars ==
    /\ template = "Vanilla"
    /\ flavor = "JavaScript"
    /\ pkg_manager \in PackageManager
    /\ package_name \in VarPackageNames
    /\ manifest \in {TestManifest, NestedManifest}
    /\ \E c \in Contents : call = NoCall(c)
    /\ InitIdle

\* Self::replace_vars(&content, &lib_name, package_name, pkg_manager, manifest)
CallReplaceVars ==
    /\ call.op = "none"
    /\ call' = [op |-> "replace_vars", arg |-> call.arg,
                res |-> replace_vars(call.arg, lib_name_of(package_name),
                                     package_name, pkg_manager, manifest)]
    /\ UNCHANGED <<template, pkg_manager, flavor>>
    /\ UNCHANGED <<package_name, alpha, mobile, store, marker_parse>>
    /\ UNCHANGED runVars

NextVars == CallReplaceVars

SpecVars == InitVars /\ [][NextVars]_vars


--------------------------------------------------------------------------
(* Claims about the catalog (SpecCatalog) *)

\* the templates that have a flavor-specific variant
FlavorSupporting == {t \in Template : \E f \in Flavor : from_flavor(t, f) # t}

IsFlavorSet(opt) == opt # None /\ Range(opt[1]) = {"TypeScript", "JavaScript"}

\* C6: for every template and manager for which flavors(template, manager) is
\* a flavor set, and every flavor of that set, without_flavor applied to
\* from_flavor(template, flavor) gives the template back.
C6_FlavorRoundTrip ==
    (/\ call.op = "without_flavor"
     /\ flavors(template, pkg_manager) # None
     /\ flavor \in Range(flavors(template, pkg_manager)[1]))
        => /\ call.arg = <<from_flavor(template, flavor)>>
           /\ call.res = <<template>>

C6_Witness ==
    /\ call.op = "without_flavor"
    /\ template = "Solid"
    /\ pkg_manager = "Npm"
    /\ flavor = "TypeScript"
    /\ call.arg = <<"SolidTs">>
    /\ call.res = <<"Solid">>

\* C7 as stated: flavors(template, Cargo) is None for every template, a
\* flavor set is returned only for a flavor-supporting template and a
\* manager other than Cargo, and then it is {TypeScript, JavaScript}.
C7_Original ==
    call.op = "flavors" =>
        /\ pkg_manager = "Cargo" => call.res = None
        /\ call.res # None => template \in FlavorSupporting /\ pkg_manager # "Cargo"
        /\ (template \in FlavorSupporting /\ pkg_manager # "Cargo")
              => IsFlavorSet(call.res)

\* C7 as amended: flavors consults the manager for Vanilla only.
\* flavors(template, Cargo) is None for Vanilla and for every template without
\* flavor support (so for every template Cargo is a possible manager of), and
\* is {TypeScript, JavaScript} for Vue, Svelte, React, Solid and Preact; for a
\* flavor-supporting template and a manager other than Cargo it is
\* {TypeScript, JavaScript}; a template without flavor support has None.
C7_FlavorsOnlyVanillaChecksCargo ==
    call.op = "flavors" =>
        /\ (pkg_manager = "Cargo"
              /\ (template = "Vanilla" \/ template \notin FlavorSupporting))
              => call.res = None
        /\ (pkg_manager \in Range(possible_package_managers(template))
              /\ pkg_manager = "Cargo") => call.res = None
        /\ (pkg_manager = "Cargo" /\ template \in FlavorSupporting \ {"Vanilla"})
              => IsFlavorSet(call.res)
        /\ call.res # None => template \in FlavorSupporting
        /\ (template \in FlavorSupporting /\ pkg_manager # "Cargo")
              => IsFlavorSet(call.res)

C7_Witness ==
    /\ call.op = "flavors"
    /\ template = "Vanilla"
    /\ pkg_manager = "Cargo"
    /\ call.res = None

--------------------------------------------------------------------------
(* Claims about replace_vars (SpecVars) *)

\* C5: replace_vars substitutes the manifest variables first, then
\* ~lib_name~, ~package_name~, ~pkg_manager_run_command~ and ~double-dash~,
\* each over the result of the step before, ~double-dash~ becoming " --" for
\* npm only. So the manifest value
\* "~pkg_manager_run_command~ start~double-dash~ --port 1420" resolves to
\* "npm run start -- --port 1420" for npm and "pnpm start --port 1420" for
\* pnpm, a placeholder brought in by the package name is substituted only by
\* the steps after ~package_name~, and one brought in by a step is not
\* substituted by the steps before it.
C5_SubstitutionOrder ==
    call.op = "replace_vars" =>
        /\ (call.arg = TestContent /\ manifest = TestManifest /\ pkg_manager = "Npm")
              => call.res = <<"dev=", "npm run", " start", " --", " --port 1420",
                              ";build=", "npm run", " build",
                              ";path=", "http://localhost:1420", ";dist=">>
        /\ (call.arg = TestContent /\ manifest = TestManifest /\ pkg_manager = "Pnpm")
              => call.res = <<"dev=", "pnpm", " start", " --port 1420",
                              ";build=", "pnpm", " build",
                              ";path=", "http://localhost:1420", ";dist=">>
        /\ call.arg = RunContent
              => call.res = run_cmd(pkg_manager) \o <<" tauri">>
                              \o (IF pkg_manager = "Npm" THEN <<" --">> ELSE <<>>)
        /\ (call.arg = TestContent /\ manifest = NestedManifest
              /\ package_name = <<"cta", "-", "app">>)
              => call.res = <<"dev=", "cta", "_", "app", "_lib",
                              ";build=", "cta", "-", "app", ";path=">>
                              \o (IF pkg_manager = "Npm" THEN <<" --">> ELSE <<>>)
                              \o <<";dist=", "../dist">>
        /\ (call.arg = NamesContent /\ package_name = Ph("pkg_manager_run_command"))
              => call.res = run_cmd(pkg_manager) \o <<"_lib", "/">>
                              \o run_cmd(pkg_manager)
        /\ (call.arg = NamesContent /\ package_name = Ph("lib_name"))
              => call.res = Ph("lib_name") \o <<"_lib", "/">> \o Ph("lib_name")
        /\ (call.arg = SharedTildeContent /\ package_name = <<"cta", "-", "app">>)
              => call.res = <<"cta", "_", "app", "_lib", "package_name", "~">>

C5_Witness ==
    /\ call.op = "replace_vars"
    /\ call.arg = TestContent
    /\ manifest = TestManifest
    /\ pkg_manager = "Npm"
    /\ call.res = <<"dev=", "npm run", " start", " --", " --port 1420",
                    ";build=", "npm run", " build",
                    ";path=", "http://localhost:1420", ";dist=">>


--------------------------------------------------------------------------
(* Claims about render (Spec) *)

\* the events of the base and template passes
ZoneEvents == {i \in DOMAIN log : log[i].pass \in {"base", "template"}}

\* write_file did not skip the entry
Included(ev) == ev.op # "skip"

HasFlag(name, tag) == <<tag>> \in Range(FlagsOf(name))

\* the flags left after removing stable, alpha and mobile
ManagerTokens(name) == Range(FlagsOf(name)) \ ChannelFlags

ManagerEligible(name, pm) ==
    ManagerTokens(name) = {} \/ <<pm_to_string(pm)>> \in ManagerTokens(name)

ChannelEligible(name, a, m) ==
    \/ HasFlag(name, "stable") /\ ~a
    \/ HasFlag(name, "alpha") /\ a /\ ~m
    \/ HasFlag(name, "mobile") /\ a /\ m
    \/ ~HasFlag(name, "stable") /\ ~HasFlag(name, "alpha") /\ ~HasFlag(name, "mobile")

\* C1: a conditional file that is manager-eligible is included iff
\* (stable and not alpha channel) or (alpha and alpha channel and not mobile)
\* or (mobile and alpha channel and mobile) or it has no channel tag; a file
\* tagged only mobile is included when both flags are set and excluded
\* whenever the mobile flag is not.
C1_ChannelEligibility ==
    \A i \in ZoneEvents :
        LET n == log[i].entry.name
        IN (IsConditional(n) /\ ManagerEligible(n, pkg_manager))
              => /\ Included(log[i]) <=> ChannelEligible(n, alpha, mobile)
                 /\ (Range(FlagsOf(n)) \cap ChannelFlags = {<<"mobile">>})
                       => (Included(log[i]) <=> (alpha /\ mobile))

C1_Witness ==
    /\ alpha
    /\ mobile
    /\ \E i \in ZoneEvents :
          /\ log[i].entry.name = CondName(<<<<"mobile">>>>, <<"package.json">>)
          /\ log[i].op = "write"
          /\ log[i].path = Path("", <<"package.json">>)

\* C2: a conditional file that is channel-eligible is included iff the flags
\* left after removing stable, alpha and mobile are empty or contain the
\* selected manager's display identifier; otherwise it is skipped, writing
\* nothing and raising no error. %(pnpm-npm-yarn-stable-alpha)%package.json
\* on the stable channel is written as package.json for pnpm, npm and yarn
\* and skipped for bun and cargo.
C2_ManagerEligibility ==
    /\ \A i \in ZoneEvents :
          LET n == log[i].entry.name
          IN /\ (IsConditional(n) /\ ChannelEligible(n, alpha, mobile))
                   => (Included(log[i]) <=> ManagerEligible(n, pkg_manager))
             /\ (n = CondName(<<<<"pnpm">>, <<"npm">>, <<"yarn">>, <<"stable">>,
                                <<"alpha">>>>, <<"package.json">>) /\ ~alpha)
                   => /\ Included(log[i]) <=> pkg_manager \in {"Pnpm", "Npm", "Yarn"}
                      /\ Included(log[i]) => log[i].path.name = <<"package.json">>
    /\ (pc = "done" /\ manifest.files = <<>>
          /\ \A i \in ZoneEvents : ~Included(log[i]))
          => fs = NoFiles /\ err = NoError

C2_Witness ==
    /\ ~alpha
    /\ pkg_manager = "Yarn"
    /\ \E i \in ZoneEvents :
          /\ log[i].entry.name =
                CondName(<<<<"pnpm">>, <<"npm">>, <<"yarn">>, <<"stable">>,
                           <<"alpha">>>>, <<"package.json">>)
          /\ log[i].op = "write"
          /\ log[i].path = Path("", <<"package.json">>)

\* C8: no entry of the base or template zone is written under the basename
\* _cta_manifest_, neither a plain _cta_manifest_ nor a conditional entry
\* whose final name is _cta_manifest_ and which passes the gate.
C8_MarkerNeverWritten ==
    \A i \in ZoneEvents :
        Included(log[i]) => log[i].path.name # <<"_cta_manifest_">>

\* the plain marker is skipped
C8_PlainMarkerSkipped ==
    \A i \in ZoneEvents :
        log[i].entry.name = <<"_cta_manifest_">> => ~Included(log[i])

\* C9: an emitted file of the base or template zone has its variables
\* substituted iff its final basename (after the rename, or with the
\* conditional prefix stripped) is on the allow-list and its bytes are UTF-8;
\* otherwise the bytes written are the asset's bytes and no error is raised.
C9_SubstitutionGate ==
    \A i \in ZoneEvents :
        log[i].op = "write" =>
            LET e == log[i].entry
                final == IF e.name = <<"_gitignore">> THEN <<".gitignore">>
                         ELSE IF e.name = <<"_Cargo.toml">> THEN <<"Cargo.toml">>
                         ELSE IF IsConditional(e.name) THEN FinalNameOf(e.name)
                         ELSE e.name
            IN /\ log[i].path = Path(e.dir, final)
               /\ (final \in AllowList /\ IsUtf8(e.data))
                     => log[i].data = replace_vars(e.data, lib_name_of(package_name),
                                                   package_name, pkg_manager, manifest)
               /\ ~(final \in AllowList /\ IsUtf8(e.data)) => log[i].data = e.data
               /\ (e.data = PackageText /\ final \in {<<"Cargo.toml">>, <<"package.json">>})
                     => log[i].data = package_name
               /\ (i = Len(log) /\ pc # "failed") => fs[log[i].path] = log[i].data

C9_Witness ==
    \E i \in ZoneEvents :
        /\ log[i].op = "write"
        /\ log[i].path = Path("", <<"package.json">>)
        /\ ~IsUtf8(log[i].entry.data)
        /\ log[i].data = <<InvalidByte>> \o Ph("package_name")
        /\ fs[log[i].path] = log[i].data


\* entry e is included and its output path is p
ResolvesTo(e, p) ==
    LET d == target_file_name(e.name, pkg_manager, alpha, mobile)
    IN d.include /\ p = Path(e.dir, d.name)

\* the bytes render produces from an included entry e
Produced(e) ==
    file_data(e, target_file_name(e.name, pkg_manager, alpha, mobile).name,
              package_name, pkg_manager, manifest)

\* the bytes of the asset named src
AssetBytes(src) == (CHOOSE x \in FRAGMENTS_get("_assets_", "", <<src>>) : TRUE).data

\* the assets the pairs of files name for destination p, one after the other
RECURSIVE ExtraBytes(_, _)
ExtraBytes(files, p) ==
    IF files = <<>> THEN <<>>
    ELSE (IF Head(files)[2] = p THEN AssetBytes(Head(files)[1]) ELSE <<>>)
           \o ExtraBytes(Tail(files), p)

\* the destinations of the extra-files list
ExtraDests == {manifest.files[i][2] : i \in DOMAIN manifest.files}

\* the paths an included base entry and an included template entry share
OverriddenPaths ==
    {p \in DOMAIN fs :
        /\ \E b \in FRAGMENTS_zone("_base_") : ResolvesTo(b, p)
        /\ \E t \in FRAGMENTS_zone(TemplateZone(template)) : ResolvesTo(t, p)}

BaseBeforeTemplate ==
    \A i, j \in DOMAIN log :
        (log[i].pass = "template" /\ log[j].pass = "base") => j < i

\* C3 as stated: the base entries are all written before any template entry,
\* and after a successful render a path that an included base entry and an
\* included template entry share holds the bytes produced from the template
\* entry.
C3_Original ==
    /\ BaseBeforeTemplate
    /\ pc = "done" =>
          \A p \in OverriddenPaths :
              \E t \in FRAGMENTS_zone(TemplateZone(template)) :
                  ResolvesTo(t, p) /\ fs[p] = Produced(t)

\* C3 as amended: the base entries are all written before any template entry,
\* and after a successful render a path that an included base entry and an
\* included template entry share holds the bytes produced from a template
\* entry, followed by the assets the extra-files pass appended to that path
\* (nothing, when no extra-files pair targets it); it never holds the base
\* entry's bytes in their place.
C3_TemplateOverridesBase ==
    /\ BaseBeforeTemplate
    /\ pc = "done" =>
          \A p \in OverriddenPaths :
              \E t \in FRAGMENTS_zone(TemplateZone(template)) :
                  /\ ResolvesTo(t, p)
                  /\ fs[p] = Produced(t) \o ExtraBytes(manifest.files, p)
                  /\ p \notin ExtraDests => fs[p] = Produced(t)

C3_Witness ==
    /\ pc = "done"
    /\ Path("", <<"app.css">>) \in OverriddenPaths
    /\ Entry("_base_", "", <<"app.css">>, PackageText) \in store
    /\ Entry("fragment-vanilla", "", <<"app.css">>, <<"vanilla-css">>) \in store
    /\ manifest.files = <<>>
    /\ fs[Path("", <<"app.css">>)] = <<"vanilla-css">>
    /\ \E i, j \in DOMAIN log :
          /\ i < j
          /\ log[i].pass = "base" /\ log[i].op = "write"
          /\ log[i].path = Path("", <<"app.css">>)
          /\ log[j].pass = "template" /\ log[j].op = "write"
          /\ log[j].path = Path("", <<"app.css">>)

\* what the base and template passes left at p: the last write to p, if any
RECURSIVE ZoneBytes(_, _)
ZoneBytes(l, p) ==
    IF l = <<>> THEN <<>>
    ELSE LET ev == l[Len(l)]
         IN IF ev.pass \in {"base", "template"} /\ ev.op = "write" /\ ev.path = p
            THEN ev.data
            ELSE ZoneBytes(SubSeq(l, 1, Len(l) - 1), p)

\* C4 as stated: after a successful render every destination of the
\* extra-files list holds the concatenation of the assets named for it, in
\* manifest order.
C4_Original ==
    pc = "done" =>
        \A p \in ExtraDests : fs[p] = ExtraBytes(manifest.files, p)

\* C4 as amended: after a successful render every destination of the
\* extra-files list holds the bytes it held when the extra-files pass began
\* (what the base and template passes wrote there, or nothing) followed by
\* the concatenation of the assets named for it, in manifest order.
C4_ExtraFilesAppend ==
    pc = "done" =>
        \A p \in ExtraDests :
            /\ p \in DOMAIN fs
            /\ fs[p] = ZoneBytes(log, p) \o ExtraBytes(manifest.files, p)
            /\ (\A i \in ZoneEvents : log[i].path # p)
                  => fs[p] = ExtraBytes(manifest.files, p)

C4_Witness ==
    /\ pc = "done"
    /\ manifest.files = <<<<"a.bin", Path("", <<"app.css">>)>>,
                          <<"b.bin", Path("", <<"app.css">>)>>>>
    /\ \A i \in ZoneEvents : log[i].path # Path("", <<"app.css">>)
    /\ fs[Path("", <<"app.css">>)] = <<"A1", "B1", "B2">>

\* the event of a step that failed
IsFailure(ev) == ev.op \notin {"skip", "write", "append"}

\* C10 as stated: a failing step makes render return the error, no write of
\* a later step happens, every file written by the steps before is left as
\* it was, and a failure to load or parse the marker comes before any write.
C10_Original ==
    [][/\ pc \notin {"failed", "done"}
       /\ (log' # log /\ IsFailure(log'[Len(log')])) => pc' = "failed"
       /\ pc' = "failed" =>
             /\ err' # NoError
             /\ \A p \in DOMAIN fs : p \in DOMAIN fs' /\ fs'[p] = fs[p]
       /\ (pc = "start" /\ pc' = "failed") => fs' = NoFiles /\ log' = <<>>]_vars

\* C10 as amended: a failing step makes render return the error, no write of
\* a later step happens, and every file written by the steps before is left
\* as it was, except the one file the failing step was writing, which a failed
\* write leaves truncated or partly written (partly appended, in the
\* extra-files pass); a failure to load or parse the marker comes before any
\* write.
C10_AbortWithoutRollback ==
    [][/\ pc \notin {"failed", "done"}
       /\ (log' # log /\ IsFailure(log'[Len(log')])) => pc' = "failed"
       /\ pc' = "failed" =>
             /\ err' # NoError
             /\ \A p \in DOMAIN fs :
                   /\ p \in DOMAIN fs'
                   /\ p # err'.path => fs'[p] = fs[p]
                   /\ log'[Len(log')].op # "write failed" => fs'[p] = fs[p]
       /\ (pc = "start" /\ pc' = "failed") => fs' = NoFiles /\ log' = <<>>]_vars

C10_Witness ==
    /\ pc = "failed"
    /\ err = Error("Io", Path("", <<"app.css">>))
    /\ log[Len(log)].pass = "template"
    /\ log[Len(log)].op = "write failed"
    /\ Path("", <<"Cargo.toml">>) \in DOMAIN fs
    /\ fs[Path("", <<"Cargo.toml">>)] = <<"cta", "-", "app">>
    /\ tmplLeft # {}

==========================================================================
